---- MODULE Spec2Model ----
(***************************************************************************)
(* State-machine model of src/recovery.c: the recovery dispatcher          *)
(* recover_from_error, the six per-error strategies, cleanup_resources and *)
(* verify_system_resources.  Every system call whose result the code       *)
(* branches on is an input drawn at the step that makes the call; every    *)
(* observable operation is appended to `log` with the time it happened.    *)
(***************************************************************************)
EXTENDS Integers, Sequences, FiniteSets, TLC

VARIABLES pc, type, status, result, attempt, i, fd, fds, shm, tmp, clock, log

vars == <<pc, type, status, result, attempt, i, fd, fds, shm, tmp, clock, log>>

(* ---------------------------------------------------------------------- *)
(* Program constants                                                       *)
(* ---------------------------------------------------------------------- *)
MAX_RETRIES == 3
RETRY_DELAY == 2
(* MAX_MEMORY_THRESHOLD is 0.9, kept as the exact ratio 9/10 *)
MAX_MEMORY_THRESHOLD_NUM == 9
MAX_MEMORY_THRESHOLD_DEN == 10
(* 8L * 1024 * 1024, the fallback of get_system_memory *)
DEFAULT_SYSTEM_MEMORY == 8388608
(* cleanup_resources closes descriptors FIRST_CLOSED_FD .. FD_LIMIT - 1 *)
FIRST_CLOSED_FD == 3
FD_LIMIT == 1024
BACKUP_PATH_SIZE == 256

device_paths == <<"/dev/tty0", "/dev/null", "/dev/zero">>
FILE_ACCESS_PATH == "/path/to/nonexistent/file.txt"
TXT_BUSY_PATH == "example.lock"
TMP_PREFIX == "/tmp/error_handler_"

RecoveryStatus == {"RECOVERY_SUCCESS", "RECOVERY_PARTIAL", "RECOVERY_FAILED"}

(* The six kinds the switch handles, and two values that reach `default` *)
HandledTypes == {"MEMORY_ERROR", "FILE_ACCESS_ERROR", "DEVICE_ERROR",
                 "NULL_ERROR", "TXT_BUSY", "DEVICE_BUSY"}
ErrorType == HandledTypes \cup {"UNKNOWN_ERROR", "OUT_OF_RANGE"}

(* ---------------------------------------------------------------------- *)
(* Bounds of the model                                                     *)
(* ---------------------------------------------------------------------- *)
(* longest log the model records for one call *)
MaxLog == 48
(* size of a MemTotal reading, in kB, that the environment may report *)
MaxMemKb == 10
(* number of threads that call recover_from_error at the same time *)
MaxCallers == 2

(* ---------------------------------------------------------------------- *)
(* Environment inputs                                                      *)
(* ---------------------------------------------------------------------- *)
(* descriptors the process may hold besides 0, 1, 2 when recovery starts *)
StrayFds == {3, FD_LIMIT}
(* System V segments of the user: one that no process has attached and one *)
(* that is attached; dest is the mark IPC_RMID leaves on an attached one    *)
ShmSegments == {[id |-> "shm0", attached |-> FALSE, dest |-> FALSE],
                [id |-> "shm1", attached |-> TRUE, dest |-> FALSE]}
(* entries of /tmp: a regular file and a directory named with the reserved *)
(* prefix, and a file outside it                                           *)
TmpFiles == {[name |-> "/tmp/error_handler_a", dir |-> FALSE],
             [name |-> "/tmp/error_handler_dir", dir |-> TRUE],
             [name |-> "/tmp/other", dir |-> FALSE]}

(* errno values open() may leave behind *)
Errnos == {"ETXTBSY", "ENOENT", "EACCES"}

(* /proc/meminfo: unreadable, or the MemTotal value in kB (0: no such line) *)
MemInfos == {-1, 0, MaxMemKb}
(* getrusage: failure, or ru_maxrss *)
Rusages == {-1, 0,
            (MAX_MEMORY_THRESHOLD_NUM * MaxMemKb * 1024) \div MAX_MEMORY_THRESHOLD_DEN,
            (MAX_MEMORY_THRESHOLD_NUM * MaxMemKb * 1024) \div MAX_MEMORY_THRESHOLD_DEN + 1,
            (MAX_MEMORY_THRESHOLD_NUM * DEFAULT_SYSTEM_MEMORY) \div MAX_MEMORY_THRESHOLD_DEN + 1}
(* getloadavg: failure (-1), or the 1-minute load in hundredths *)
LoadAvgs == {-1, 79, 80, 150}
LOAD_LIMIT == 80

(* ---------------------------------------------------------------------- *)
(* Helpers                                                                 *)
(* ---------------------------------------------------------------------- *)
(* open()/fopen() return the lowest descriptor not in use *)
LowestFree(S) == CHOOSE n \in 0..(Cardinality(S)) : n \notin S /\ \A m \in 0..(n-1) : m \in S

Ev(op, arg, val) == [op |-> op, arg |-> arg, val |-> val, at |-> clock]

(* seconds are spent only in sleep() *)
sleep(seconds) == clock' = clock + seconds

(* a successful open()/fopen() leaves its descriptor in fd *)
OpenFd == /\ fd' = LowestFree(fds)
          /\ fds' = fds \cup {LowestFree(fds)}

(* close(fd) / fclose(file) *)
CloseFd == /\ fds' = fds \ {fd}
           /\ fd' = -1

Emit(es) == /\ Len(log) + Len(es) <= MaxLog
            /\ log' = log \o es

HasPrefix(s, p) == Len(s) >= Len(p) /\ SubSeq(s, 1, Len(p)) = p

(* snprintf(backup_path, sizeof(backup_path), "%s.backup", filepath) *)
BackupPath(filepath) ==
    LET full == filepath \o ".backup"
    IN IF Len(full) <= BACKUP_PATH_SIZE - 1 THEN full
       ELSE SubSeq(full, 1, BACKUP_PATH_SIZE - 1)

(* get_system_memory: meminfo is -1 when /proc/meminfo cannot be opened *)
get_system_memory(meminfo) ==
    IF meminfo = -1 THEN DEFAULT_SYSTEM_MEMORY
    ELSE LET total_memory == meminfo * 1024
         IN IF total_memory # 0 THEN total_memory ELSE DEFAULT_SYSTEM_MEMORY

verify_system_resources_AtThresholdUnsafe(rusage, meminfo) ==
    IF rusage # -1
    THEN IF rusage * MAX_MEMORY_THRESHOLD_DEN
            >= MAX_MEMORY_THRESHOLD_NUM * get_system_memory(meminfo)
         THEN 0 ELSE 1
    ELSE 0

(* verify_system_resources: rusage is -1 when getrusage fails, else ru_maxrss *)
verify_system_resources(rusage, meminfo) ==
    IF rusage # -1
    THEN IF rusage * MAX_MEMORY_THRESHOLD_DEN
            > MAX_MEMORY_THRESHOLD_NUM * get_system_memory(meminfo)
         THEN 0 ELSE 1
    ELSE 0

(* what one verify_system_resources() call does: getrusage, then, only when *)
(* that succeeded, get_system_memory, then the value returned              *)
VerifyEvents(rusage, meminfo) ==
    << Ev("getrusage", "", rusage) >>
    \o (IF rusage # -1
        THEN << Ev("get_system_memory", "", get_system_memory(meminfo)) >>
        ELSE << >>)
    \o << Ev("verify_system_resources", "", verify_system_resources(rusage, meminfo)) >>

(* check_device_status: stat() then open(O_RDONLY | O_NONBLOCK) and close *)
check_device_status(statOk, openOk) == IF statOk /\ openOk THEN 1 ELSE 0

(* lines 79-81: close(fd) for fd = first .. FD_LIMIT - 1 on the table F *)
CloseRange(F, first) == F \ (first .. (FD_LIMIT - 1))

(* line 84, one shmctl(IPC_RMID) of "ipcrm -a", on segment s of S: a       *)
(* segment nobody has attached is destroyed, an attached one stays and is  *)
(* marked for destruction at its last detach                               *)
ipcrm_one(S, s) ==
    IF s.attached THEN (S \ {s}) \cup {[s EXCEPT !.dest = TRUE]} ELSE S \ {s}

(* the segments of S on which IPC_RMID still changes something *)
ipcrm_pending(S) == {s \in S : ~s.attached \/ ~s.dest}

(* line 84, what a whole "ipcrm -a" does to S: IPC_RMID on each segment, *)
(* one after the other                                                     *)
RECURSIVE ipcrm_a(_)
ipcrm_a(S) ==
    IF ipcrm_pending(S) = {} THEN S
    ELSE ipcrm_a(ipcrm_one(S, CHOOSE s \in ipcrm_pending(S) : TRUE))

(* line 87, the operands of "rm -f /tmp/error_handler_*" among T that it   *)
(* unlinks: the regular files the pattern matches; without -r a directory  *)
(* it matches stays                                                        *)
rm_pending(T) == {f \in T : ~f.dir /\ HasPrefix(f.name, TMP_PREFIX)}

(* line 87, what the whole rm does to T: one unlink per such operand *)
rm_f(T) == T \ rm_pending(T)

(* the value system() returns for that rm: exit code 1 when an operand was *)
(* a directory, 0 otherwise (also when the pattern matched nothing)        *)
rm_f_status(T) ==
    IF \E f \in T : f.dir /\ HasPrefix(f.name, TMP_PREFIX) THEN 256 ELSE 0

(* the events of one cleanup_resources() call; the values system() returns *)
(* are recorded here and used nowhere                                      *)
CleanupEvents == << Ev("cleanup_resources", "", 0),
                    Ev("system", "ipcrm -a", 0),
                    Ev("system", "rm -f /tmp/error_handler_*", rm_f_status(tmp)),
                    Ev("log_error", "UNKNOWN_ERROR", 0) >>

(* lines 75-91 run by the only thread: nothing comes between its parts *)
cleanup_resources ==
    /\ fds' = CloseRange(fds, FIRST_CLOSED_FD)
    /\ shm' = ipcrm_a(shm)
    /\ tmp' = rm_f(tmp)
    /\ Emit(CleanupEvents)

(* line 303: if (status == RECOVERY_FAILED) *)
NeedsCleanup_AnyNonSuccess(s) == s # "RECOVERY_SUCCESS"

NeedsCleanup_Never(s) == FALSE

NeedsCleanup(s) == s = "RECOVERY_FAILED"

(* line 113: attempt <= MAX_RETRIES *)
FileLoopTest_Forever(a) == TRUE

FileLoopTest_OffByOne(a) == a < MAX_RETRIES

FileLoopTest(a) == a <= MAX_RETRIES

(* line 189: attempt <= MAX_RETRIES *)
DevLoopTest_OneMore(a) == a <= MAX_RETRIES + 1

DevLoopTest(a) == a <= MAX_RETRIES

(* line 216: attempt <= MAX_RETRIES *)
BusyLoopTest_OffByOne(a) == a < MAX_RETRIES

BusyLoopTest(a) == a <= MAX_RETRIES

(* line 242: attempt <= MAX_RETRIES *)
TxtLoopTest(a) == a <= MAX_RETRIES

(* line 232: the argument of sleep in recover_from_device_busy *)
BusyDelay_Base == RETRY_DELAY

BusyDelay == RETRY_DELAY * 2

(* line 221: getloadavg(loadavg, 1) == 1 && loadavg[0] < 0.8 *)
LoadAcceptable_IgnoresFailure(load) == load < LOAD_LIMIT

LoadAcceptable(load) == load # -1 /\ load < LOAD_LIMIT

(* line 253: errno != ETXTBSY *)
IsUnexpected_Never(errno) == FALSE

IsUnexpected(errno) == errno # "ETXTBSY"

(* a strategy returns s to recover_from_error *)
Return(s) == /\ status' = s
             /\ pc' = "summary"

(* ---------------------------------------------------------------------- *)
(* Initial state: no recovery in progress                                  *)
(* ---------------------------------------------------------------------- *)
Init == /\ pc = "idle"
        /\ type = "UNKNOWN_ERROR"
        /\ status = "RECOVERY_FAILED"
        /\ result = "none"
        /\ attempt = 0
        /\ i = 0
        /\ fd = -1
        /\ fds = {0, 1, 2}
        /\ shm = {}
        /\ tmp = {}
        /\ clock = 0
        /\ log = << >>

(* ---------------------------------------------------------------------- *)
(* recover_from_error: entry and switch                                    *)
(* ---------------------------------------------------------------------- *)
StrategyOf(t) ==
    CASE t = "MEMORY_ERROR"      -> "recover_from_memory_error"
      [] t = "FILE_ACCESS_ERROR" -> "recover_from_file_access_error"
      [] t = "DEVICE_ERROR"      -> "recover_from_device_error"
      [] t = "NULL_ERROR"        -> "recover_from_null_error"
      [] t = "TXT_BUSY"          -> "recover_from_txt_busy"
      [] t = "DEVICE_BUSY"       -> "recover_from_device_busy"
      [] OTHER                   -> "none"

EntryPc_DefaultFallsThrough(t) ==
    CASE t = "MEMORY_ERROR"      -> "mem_cleanup"
      [] t = "FILE_ACCESS_ERROR" -> "file_target"
      [] t = "DEVICE_ERROR"      -> "dev_check"
      [] t = "NULL_ERROR"        -> "null_verify"
      [] t = "TXT_BUSY"          -> "txt_open"
      [] t = "DEVICE_BUSY"       -> "busy_load"
      [] OTHER                   -> "summary"

(* the switch of lines 267-295: where control goes for each type *)
EntryPc(t) ==
    CASE t = "MEMORY_ERROR"      -> "mem_cleanup"
      [] t = "FILE_ACCESS_ERROR" -> "file_target"
      [] t = "DEVICE_ERROR"      -> "dev_check"
      [] t = "NULL_ERROR"        -> "null_verify"
      [] t = "TXT_BUSY"          -> "txt_open"
      [] t = "DEVICE_BUSY"       -> "busy_load"
      [] OTHER                   -> "done"

recover_from_error ==
    /\ pc = "idle"
    /\ \E t \in ErrorType, stray \in SUBSET StrayFds,
          segs \in SUBSET ShmSegments, files \in SUBSET TmpFiles :
         /\ type' = t
         /\ fds' = {0, 1, 2} \cup stray
         /\ shm' = segs
         /\ tmp' = files
         /\ status' = "RECOVERY_FAILED"
         /\ attempt' = 1
         /\ i' = 1
         /\ fd' = -1
         /\ clock' = 0
         /\ pc' = EntryPc(t)
         /\ IF StrategyOf(t) # "none"
            THEN /\ log' = << [op |-> "call", arg |-> StrategyOf(t), val |-> 0, at |-> 0] >>
                 /\ result' = "none"
            ELSE /\ log' = << [op |-> "printf", arg |-> "Unknown error type", val |-> 0, at |-> 0] >>
                 /\ result' = "RECOVERY_FAILED"

(* lines 297-300: the outcome summary, then the test of line 303 *)
Summary ==
    /\ pc = "summary"
    /\ Emit(<< Ev("printf", "Recovery " \o status, 0) >>)
    /\ IF NeedsCleanup(status)
       THEN /\ pc' = "cleanup"
            /\ UNCHANGED result
       ELSE /\ pc' = "done"
            /\ result' = status
    /\ UNCHANGED <<type, status, attempt, i, fd, fds, shm, tmp, clock>>

(* lines 303-307: cleanup on failure, then return status *)
FailureCleanup ==
    /\ pc = "cleanup"
    /\ cleanup_resources
    /\ result' = status
    /\ pc' = "done"
    /\ UNCHANGED <<type, status, attempt, i, fd, clock>>

(* the caller has the result; the next error may be reported *)
Reset ==
    /\ pc = "done"
    /\ pc' = "idle"
    /\ type' = "UNKNOWN_ERROR"
    /\ status' = "RECOVERY_FAILED"
    /\ result' = "none"
    /\ attempt' = 0
    /\ i' = 0
    /\ fd' = -1
    /\ fds' = {0, 1, 2}
    /\ shm' = {}
    /\ tmp' = {}
    /\ clock' = 0
    /\ log' = << >>

(* ---------------------------------------------------------------------- *)
(* recover_from_memory_error                                               *)
(* ---------------------------------------------------------------------- *)
MemCleanup ==
    /\ pc = "mem_cleanup"
    /\ cleanup_resources
    /\ pc' = "mem_verify"
    /\ UNCHANGED <<type, status, result, attempt, i, fd, clock>>

MemVerify_IgnoresResult ==
    /\ pc = "mem_verify"
    /\ \E rusage \in Rusages, meminfo \in MemInfos :
         LET ok == verify_system_resources(rusage, meminfo)
         IN /\ Emit(VerifyEvents(rusage, meminfo))
            /\ pc' = "mem_alloc"
            /\ UNCHANGED status
    /\ UNCHANGED <<type, result, attempt, i, fd, fds, shm, tmp, clock>>

(* step 2: if (!verify_system_resources()) return RECOVERY_FAILED *)
MemVerify ==
    /\ pc = "mem_verify"
    /\ \E rusage \in Rusages, meminfo \in MemInfos :
         LET ok == verify_system_resources(rusage, meminfo)
         IN /\ Emit(VerifyEvents(rusage, meminfo))
            /\ IF ok = 0
               THEN Return("RECOVERY_FAILED")
               ELSE /\ pc' = "mem_alloc"
                    /\ UNCHANGED status
    /\ UNCHANGED <<type, result, attempt, i, fd, fds, shm, tmp, clock>>

MemAlloc ==
    /\ pc = "mem_alloc"
    /\ \E ok \in {0, 1} :
         /\ Emit(<< Ev("malloc", "1024", ok) >>)
         /\ Return(IF ok = 0 THEN "RECOVERY_FAILED" ELSE "RECOVERY_SUCCESS")
    /\ UNCHANGED <<type, result, attempt, i, fd, fds, shm, tmp, clock>>

recover_from_memory_error == MemCleanup \/ MemVerify \/ MemAlloc

(* ---------------------------------------------------------------------- *)
(* recover_from_null_error                                                 *)
(* ---------------------------------------------------------------------- *)
recover_from_null_error ==
    /\ pc = "null_verify"
    /\ \E rusage \in Rusages, meminfo \in MemInfos :
         LET ok == verify_system_resources(rusage, meminfo)
         IN IF ok = 0
            THEN /\ Emit(VerifyEvents(rusage, meminfo))
                 /\ Return("RECOVERY_FAILED")
            ELSE /\ Emit(VerifyEvents(rusage, meminfo)
                         \o << Ev("log_error", "NULL_ERROR", 0) >>)
                 /\ Return("RECOVERY_SUCCESS")
    /\ UNCHANGED <<type, result, attempt, i, fd, fds, shm, tmp, clock>>

(* ---------------------------------------------------------------------- *)
(* recover_from_file_access_error                                          *)
(* ---------------------------------------------------------------------- *)
(* fopen(filepath, "r") *)
FileTarget ==
    /\ pc = "file_target"
    /\ \E ok \in {0, 1} :
         /\ Emit(<< Ev("attempt", "recover_from_file_access_error", attempt),
                    Ev("fopen", FILE_ACCESS_PATH, ok) >>)
         /\ IF ok = 1
            THEN /\ OpenFd
                 /\ pc' = "file_target_close"
            ELSE /\ pc' = "file_backup"
                 /\ UNCHANGED <<fd, fds>>
    /\ UNCHANGED <<type, status, result, attempt, i, shm, tmp, clock>>

FileTargetClose ==
    /\ pc = "file_target_close"
    /\ CloseFd
    /\ Emit(<< Ev("fclose", FILE_ACCESS_PATH, fd) >>)
    /\ Return("RECOVERY_SUCCESS")
    /\ UNCHANGED <<type, result, attempt, i, shm, tmp, clock>>

(* fopen(backup_path, "r") *)
FileBackup ==
    /\ pc = "file_backup"
    /\ \E ok \in {0, 1} :
         /\ Emit(<< Ev("fopen", BackupPath(FILE_ACCESS_PATH), ok) >>)
         /\ IF ok = 1
            THEN /\ OpenFd
                 /\ pc' = "file_backup_close"
            ELSE /\ pc' = "file_sleep"
                 /\ UNCHANGED <<fd, fds>>
    /\ UNCHANGED <<type, status, result, attempt, i, shm, tmp, clock>>

FileBackupClose_ReturnsSuccess ==
    /\ pc = "file_backup_close"
    /\ CloseFd
    /\ Emit(<< Ev("fclose", BackupPath(FILE_ACCESS_PATH), fd) >>)
    /\ Return("RECOVERY_SUCCESS")
    /\ UNCHANGED <<type, result, attempt, i, shm, tmp, clock>>

(* fclose(file); return RECOVERY_PARTIAL *)
FileBackupClose ==
    /\ pc = "file_backup_close"
    /\ CloseFd
    /\ Emit(<< Ev("fclose", BackupPath(FILE_ACCESS_PATH), fd) >>)
    /\ Return("RECOVERY_PARTIAL")
    /\ UNCHANGED <<type, result, attempt, i, shm, tmp, clock>>

FileSleep_NoFinalSleep ==
    /\ pc = "file_sleep"
    /\ attempt' = attempt + 1
    /\ IF FileLoopTest(attempt + 1)
       THEN /\ Emit(<< Ev("sleep", "recover_from_file_access_error", RETRY_DELAY) >>)
            /\ sleep(RETRY_DELAY)
            /\ pc' = "file_target"
            /\ UNCHANGED status
       ELSE /\ UNCHANGED <<log, clock>>
            /\ Return("RECOVERY_FAILED")
    /\ UNCHANGED <<type, result, i, fd, fds, shm, tmp>>

(* sleep(RETRY_DELAY); attempt++; the loop test; the return after the loop *)
FileSleep ==
    /\ pc = "file_sleep"
    /\ Emit(<< Ev("sleep", "recover_from_file_access_error", RETRY_DELAY) >>)
    /\ sleep(RETRY_DELAY)
    /\ attempt' = attempt + 1
    /\ IF FileLoopTest(attempt + 1)
       THEN /\ pc' = "file_target"
            /\ UNCHANGED status
       ELSE Return("RECOVERY_FAILED")
    /\ UNCHANGED <<type, result, i, fd, fds, shm, tmp>>

recover_from_file_access_error ==
    FileTarget \/ FileTargetClose \/ FileBackup \/ FileBackupClose \/ FileSleep

(* ---------------------------------------------------------------------- *)
(* recover_from_device_error                                               *)
(* ---------------------------------------------------------------------- *)
(* check_device_status(device_paths[i]): stat, open read-only non-blocking *)
DevCheck ==
    /\ pc = "dev_check"
    /\ \E statOk \in BOOLEAN, openOk \in BOOLEAN :
         /\ Emit(<< Ev("attempt", device_paths[i], attempt),
                    Ev("check_device_status", device_paths[i],
                       check_device_status(statOk, openOk)) >>)
         /\ IF check_device_status(statOk, openOk) = 1
            THEN /\ OpenFd
                 /\ pc' = "dev_check_close"
            ELSE /\ pc' = "dev_reset"
                 /\ UNCHANGED <<fd, fds>>
    /\ UNCHANGED <<type, status, result, attempt, i, shm, tmp, clock>>

DevCheckClose_KeepsProbing ==
    /\ pc = "dev_check_close"
    /\ CloseFd
    /\ Emit(<< Ev("close", device_paths[i], fd) >>)
    /\ pc' = "dev_reset"
    /\ UNCHANGED <<type, status, result, attempt, i, shm, tmp, clock>>

(* close(fd) in check_device_status, then return RECOVERY_SUCCESS *)
DevCheckClose ==
    /\ pc = "dev_check_close"
    /\ CloseFd
    /\ Emit(<< Ev("close", device_paths[i], fd) >>)
    /\ Return("RECOVERY_SUCCESS")
    /\ UNCHANGED <<type, result, attempt, i, shm, tmp, clock>>

(* reset_device(device_paths[i]): open read-write *)
DevReset ==
    /\ pc = "dev_reset"
    /\ \E ok \in {0, 1} :
         /\ Emit(<< Ev("reset_device", device_paths[i], ok) >>)
         /\ IF ok = 1
            THEN /\ OpenFd
                 /\ pc' = "dev_reset_close"
            ELSE /\ pc' = "dev_sleep"
                 /\ UNCHANGED <<fd, fds>>
    /\ UNCHANGED <<type, status, result, attempt, i, shm, tmp, clock>>

DevResetClose_ReturnsPartial ==
    /\ pc = "dev_reset_close"
    /\ CloseFd
    /\ Emit(<< Ev("ioctl", "TIOCEXCL", 0), Ev("ioctl", "TIOCNXCL", 0),
               Ev("close", device_paths[i], fd) >>)
    /\ Return("RECOVERY_PARTIAL")
    /\ UNCHANGED <<type, result, attempt, i, shm, tmp, clock>>

(* the two ioctl toggles and the close of reset_device *)
DevResetClose ==
    /\ pc = "dev_reset_close"
    /\ CloseFd
    /\ Emit(<< Ev("ioctl", "TIOCEXCL", 0), Ev("ioctl", "TIOCNXCL", 0),
               Ev("close", device_paths[i], fd) >>)
    /\ Return("RECOVERY_SUCCESS")
    /\ UNCHANGED <<type, result, attempt, i, shm, tmp, clock>>

(* sleep(RETRY_DELAY); attempt++; inner test; i++; outer test; final return *)
DevSleep ==
    /\ pc = "dev_sleep"
    /\ sleep(RETRY_DELAY)
    /\ IF DevLoopTest(attempt + 1)
       THEN /\ attempt' = attempt + 1
            /\ pc' = "dev_check"
            /\ Emit(<< Ev("sleep", device_paths[i], RETRY_DELAY) >>)
            /\ UNCHANGED <<i, status>>
       ELSE IF i + 1 <= Len(device_paths)
            THEN /\ attempt' = 1
                 /\ i' = i + 1
                 /\ pc' = "dev_check"
                 /\ Emit(<< Ev("sleep", device_paths[i], RETRY_DELAY) >>)
                 /\ UNCHANGED status
            ELSE /\ attempt' = attempt + 1
                 /\ i' = i + 1
                 /\ Emit(<< Ev("sleep", device_paths[i], RETRY_DELAY),
                            [op |-> "log_error", arg |-> "DEVICE_ERROR", val |-> 0,
                             at |-> clock + RETRY_DELAY] >>)
                 /\ Return("RECOVERY_FAILED")
    /\ UNCHANGED <<type, result, fd, fds, shm, tmp>>

recover_from_device_error ==
    DevCheck \/ DevCheckClose \/ DevReset \/ DevResetClose \/ DevSleep

(* ---------------------------------------------------------------------- *)
(* recover_from_device_busy                                                *)
(* ---------------------------------------------------------------------- *)
(* getloadavg(loadavg, 1) == 1 && loadavg[0] < 0.8 *)
BusyLoad ==
    /\ pc = "busy_load"
    /\ \E load \in LoadAvgs :
         /\ Emit(<< Ev("attempt", "recover_from_device_busy", attempt),
                    Ev("getloadavg", "", load) >>)
         /\ IF LoadAcceptable(load)
            THEN pc' = "busy_verify"
            ELSE pc' = "busy_fuser"
    /\ UNCHANGED <<type, status, result, attempt, i, fd, fds, shm, tmp, clock>>

BusyVerify ==
    /\ pc = "busy_verify"
    /\ \E rusage \in Rusages, meminfo \in MemInfos :
         LET ok == verify_system_resources(rusage, meminfo)
         IN /\ Emit(VerifyEvents(rusage, meminfo))
            /\ IF ok = 1
               THEN Return("RECOVERY_SUCCESS")
               ELSE /\ pc' = "busy_fuser"
                    /\ UNCHANGED status
    /\ UNCHANGED <<type, result, attempt, i, fd, fds, shm, tmp, clock>>

(* system("fuser -k ..."); sleep(RETRY_DELAY * 2); attempt++; loop test *)
BusyRelease ==
    /\ pc = "busy_fuser"
    /\ sleep(BusyDelay)
    /\ attempt' = attempt + 1
    /\ IF BusyLoopTest(attempt + 1)
       THEN /\ Emit(<< Ev("system", "fuser -k /dev/busy_device", 0),
                       Ev("sleep", "recover_from_device_busy", BusyDelay) >>)
            /\ pc' = "busy_load"
            /\ UNCHANGED status
       ELSE /\ Emit(<< Ev("system", "fuser -k /dev/busy_device", 0),
                       Ev("sleep", "recover_from_device_busy", BusyDelay),
                       [op |-> "log_error", arg |-> "DEVICE_BUSY", val |-> 0,
                        at |-> clock + BusyDelay] >>)
            /\ Return("RECOVERY_FAILED")
    /\ UNCHANGED <<type, result, i, fd, fds, shm, tmp>>

recover_from_device_busy == BusyLoad \/ BusyVerify \/ BusyRelease

(* ---------------------------------------------------------------------- *)
(* recover_from_txt_busy                                                   *)
(* ---------------------------------------------------------------------- *)
(* open(filepath, O_RDWR | O_NONBLOCK); errno is "none" when it succeeds *)
TxtOpen ==
    /\ pc = "txt_open"
    /\ \E errno \in {"none"} \cup Errnos :
         IF errno = "none"
         THEN /\ Emit(<< Ev("attempt", "recover_from_txt_busy", attempt),
                         Ev("open", TXT_BUSY_PATH, 1) >>)
              /\ OpenFd
              /\ pc' = "txt_close"
              /\ UNCHANGED status
         ELSE /\ UNCHANGED <<fd, fds>>
              /\ IF IsUnexpected(errno)
                 THEN /\ Emit(<< Ev("attempt", "recover_from_txt_busy", attempt),
                                 Ev("open", TXT_BUSY_PATH, 0),
                                 Ev("errno", errno, 0),
                                 Ev("printf", "Unexpected error", 0) >>)
                      /\ Return("RECOVERY_FAILED")
                 ELSE /\ Emit(<< Ev("attempt", "recover_from_txt_busy", attempt),
                                 Ev("open", TXT_BUSY_PATH, 0),
                                 Ev("errno", errno, 0) >>)
                      /\ pc' = "txt_sleep"
                      /\ UNCHANGED status
    /\ UNCHANGED <<type, result, attempt, i, shm, tmp, clock>>

TxtClose_Leaks ==
    /\ pc = "txt_close"
    /\ Emit(<< Ev("printf", "File is now available", 0) >>)
    /\ Return("RECOVERY_SUCCESS")
    /\ UNCHANGED <<type, result, attempt, i, fd, fds, shm, tmp, clock>>

(* close(fd); return RECOVERY_SUCCESS *)
TxtClose ==
    /\ pc = "txt_close"
    /\ CloseFd
    /\ Emit(<< Ev("close", TXT_BUSY_PATH, fd) >>)
    /\ Return("RECOVERY_SUCCESS")
    /\ UNCHANGED <<type, result, attempt, i, shm, tmp, clock>>

TxtSleep ==
    /\ pc = "txt_sleep"
    /\ Emit(<< Ev("sleep", "recover_from_txt_busy", RETRY_DELAY) >>)
    /\ sleep(RETRY_DELAY)
    /\ attempt' = attempt + 1
    /\ IF TxtLoopTest(attempt + 1)
       THEN /\ pc' = "txt_open"
            /\ UNCHANGED status
       ELSE Return("RECOVERY_FAILED")
    /\ UNCHANGED <<type, result, i, fd, fds, shm, tmp>>

recover_from_txt_busy == TxtOpen \/ TxtClose \/ TxtSleep

Next == \/ recover_from_error
        \/ Summary
        \/ FailureCleanup
        \/ Reset
        \/ recover_from_memory_error
        \/ recover_from_null_error
        \/ recover_from_file_access_error
        \/ recover_from_device_error
        \/ recover_from_device_busy
        \/ recover_from_txt_busy

(* the calling thread runs every started recovery step by step; the caller *)
(* need not report another error                                           *)
Step == \/ Summary
        \/ FailureCleanup
        \/ recover_from_memory_error
        \/ recover_from_null_error
        \/ recover_from_file_access_error
        \/ recover_from_device_error
        \/ recover_from_device_busy
        \/ recover_from_txt_busy

Spec == Init /\ [][Next]_vars

FairSpec == Spec /\ WF_vars(Step)

(* ---------------------------------------------------------------------- *)
(* Concurrent callers.  MaxCallers threads of one process each call        *)
(* recover_from_error once, for TXT_BUSY or for an unhandled type.  The    *)
(* locals of recover_from_error and recover_from_txt_busy (pc, type,       *)
(* status, result, attempt, fd) are functions of the caller here; the      *)
(* descriptor table, the IPC segments and the temporary files are the      *)
(* process's and shared.  The code takes no lock anywhere, so every step   *)
(* of one caller may come between any two steps of another; the steps of   *)
(* cleanup_resources are its close() calls and, inside its two system()    *)
(* calls, each IPC_RMID of ipcrm and each unlink of rm.                    *)
(* i[c] is the loop variable of cleanup_resources in caller c (the Device  *)
(* strategy, whose index i is in the sequential specification, is not run  *)
(* here).  The log and the clock are not recorded in this specification.   *)
(* ---------------------------------------------------------------------- *)
Callers == 1..MaxCallers
ConcTypes == {"TXT_BUSY", "UNKNOWN_ERROR"}

ConcInit ==
    /\ pc = [c \in Callers |-> "idle"]
    /\ type = [c \in Callers |-> "UNKNOWN_ERROR"]
    /\ status = [c \in Callers |-> "RECOVERY_FAILED"]
    /\ result = [c \in Callers |-> "none"]
    /\ attempt = [c \in Callers |-> 0]
    /\ fd = [c \in Callers |-> -1]
    /\ i = [c \in Callers |-> 0]
    /\ fds \in {{0, 1, 2} \cup stray : stray \in SUBSET StrayFds}
    /\ shm \in SUBSET ShmSegments
    /\ tmp \in SUBSET TmpFiles
    /\ clock = 0
    /\ log = << >>

(* lines 264-295 for caller c *)
ConcRecover(c) ==
    /\ pc[c] = "idle"
    /\ \E t \in ConcTypes :
         /\ type' = [type EXCEPT ![c] = t]
         /\ status' = [status EXCEPT ![c] = "RECOVERY_FAILED"]
         /\ attempt' = [attempt EXCEPT ![c] = 1]
         /\ pc' = [pc EXCEPT ![c] = EntryPc(t)]
         /\ result' = [result EXCEPT ![c] =
                          IF StrategyOf(t) # "none" THEN "none" ELSE "RECOVERY_FAILED"]
    /\ UNCHANGED <<i, fd, fds, shm, tmp, clock, log>>

(* line 246 and the tests of lines 247 and 253 for caller c *)
ConcTxtOpen(c) ==
    /\ pc[c] = "txt_open"
    /\ \E errno \in {"none"} \cup Errnos :
         IF errno = "none"
         THEN /\ fd' = [fd EXCEPT ![c] = LowestFree(fds)]
              /\ fds' = fds \cup {LowestFree(fds)}
              /\ pc' = [pc EXCEPT ![c] = "txt_close"]
              /\ UNCHANGED status
         ELSE /\ UNCHANGED <<fd, fds>>
              /\ IF IsUnexpected(errno)
                 THEN /\ status' = [status EXCEPT ![c] = "RECOVERY_FAILED"]
                      /\ pc' = [pc EXCEPT ![c] = "summary"]
                 ELSE /\ pc' = [pc EXCEPT ![c] = "txt_sleep"]
                      /\ UNCHANGED status
    /\ UNCHANGED <<type, result, attempt, i, shm, tmp, clock, log>>

(* lines 248-250 for caller c: close(fd) closes whatever now has that number *)
ConcTxtClose(c) ==
    /\ pc[c] = "txt_close"
    /\ fds' = fds \ {fd[c]}
    /\ fd' = [fd EXCEPT ![c] = -1]
    /\ status' = [status EXCEPT ![c] = "RECOVERY_SUCCESS"]
    /\ pc' = [pc EXCEPT ![c] = "summary"]
    /\ UNCHANGED <<type, result, attempt, i, shm, tmp, clock, log>>

(* lines 258-261 for caller c *)
ConcTxtSleep(c) ==
    /\ pc[c] = "txt_sleep"
    /\ attempt' = [attempt EXCEPT ![c] = attempt[c] + 1]
    /\ IF TxtLoopTest(attempt[c] + 1)
       THEN /\ pc' = [pc EXCEPT ![c] = "txt_open"]
            /\ UNCHANGED status
       ELSE /\ status' = [status EXCEPT ![c] = "RECOVERY_FAILED"]
            /\ pc' = [pc EXCEPT ![c] = "summary"]
    /\ UNCHANGED <<type, result, i, fd, fds, shm, tmp, clock, log>>

(* lines 297-303 for caller c *)
ConcSummary(c) ==
    /\ pc[c] = "summary"
    /\ IF NeedsCleanup(status[c])
       THEN /\ pc' = [pc EXCEPT ![c] = "cleanup"]
            /\ UNCHANGED result
       ELSE /\ pc' = [pc EXCEPT ![c] = "done"]
            /\ result' = [result EXCEPT ![c] = status[c]]
    /\ UNCHANGED <<type, status, attempt, i, fd, fds, shm, tmp, clock, log>>

ConcCleanupMayRun_Locked(c) ==
    /\ pc[c] = "cleanup"
    /\ \A d \in Callers \ {c} : fd[d] = -1

(* line 304: the call of cleanup_resources waits for nothing *)
ConcCleanupMayRun(c) == pc[c] = "cleanup"

(* lines 303-304 and 76-79 for caller c: cleanup_resources is entered and *)
(* its loop starts at descriptor 3                                         *)
ConcFailureCleanup(c) ==
    /\ ConcCleanupMayRun(c)
    /\ i' = [i EXCEPT ![c] = FIRST_CLOSED_FD]
    /\ pc' = [pc EXCEPT ![c] = "cleanup_close"]
    /\ UNCHANGED <<type, status, result, attempt, fd, fds, shm, tmp, clock, log>>

(* no descriptor above HighestFd is ever open below FD_LIMIT: the lowest   *)
(* free number is handed out, to at most one probe per caller, above at    *)
(* most one stray descriptor in the range                                  *)
HighestFd == FIRST_CLOSED_FD + MaxCallers

(* lines 79-81 for caller c: one close(fd) and fd++; from HighestFd on the *)
(* remaining iterations close nothing any caller can have open, and are    *)
(* taken as one step                                                       *)
ConcCleanupClose(c) ==
    /\ pc[c] = "cleanup_close"
    /\ IF i[c] < HighestFd
       THEN /\ fds' = fds \ {i[c]}
            /\ i' = [i EXCEPT ![c] = i[c] + 1]
            /\ UNCHANGED pc
       ELSE /\ fds' = CloseRange(fds, i[c])
            /\ i' = [i EXCEPT ![c] = FD_LIMIT]
            /\ pc' = [pc EXCEPT ![c] = "cleanup_ipcrm"]
    /\ UNCHANGED <<type, status, result, attempt, fd, shm, tmp, clock, log>>

(* line 84 for caller c: system() waits while ipcrm takes the segments one *)
(* at a time, in the order it lists them; it returns when none is left to  *)
(* act on, and the value it returns is dropped                             *)
ConcCleanupIpcrm(c) ==
    /\ pc[c] = "cleanup_ipcrm"
    /\ IF ipcrm_pending(shm) # {}
       THEN /\ \E s \in ipcrm_pending(shm) : shm' = ipcrm_one(shm, s)
            /\ UNCHANGED pc
       ELSE /\ pc' = [pc EXCEPT ![c] = "cleanup_rm"]
            /\ UNCHANGED shm
    /\ UNCHANGED <<type, status, result, attempt, i, fd, fds, tmp, clock, log>>

(* lines 87-90 and 307 for caller c: system() waits while rm unlinks its   *)
(* operands one at a time; then the log entry and the return               *)
ConcCleanupRm(c) ==
    /\ pc[c] = "cleanup_rm"
    /\ IF rm_pending(tmp) # {}
       THEN /\ \E f \in rm_pending(tmp) : tmp' = tmp \ {f}
            /\ UNCHANGED <<pc, result>>
       ELSE /\ result' = [result EXCEPT ![c] = status[c]]
            /\ pc' = [pc EXCEPT ![c] = "done"]
            /\ UNCHANGED tmp
    /\ UNCHANGED <<type, status, attempt, i, fd, fds, shm, clock, log>>

(* the steps of cleanup_resources in caller c *)
ConcCleanupStep(c) ==
    \/ ConcFailureCleanup(c)
    \/ ConcCleanupClose(c)
    \/ ConcCleanupIpcrm(c)
    \/ ConcCleanupRm(c)

ConcNext ==
    \E c \in Callers :
        \/ ConcRecover(c)
        \/ ConcTxtOpen(c)
        \/ ConcTxtClose(c)
        \/ ConcTxtSleep(c)
        \/ ConcSummary(c)
        \/ ConcCleanupStep(c)

ConcSpec == ConcInit /\ [][ConcNext]_vars

(* the log never reaches the recording bound, so Emit never blocks a step *)
InvLogBound == Len(log) < MaxLog

(* ---------------------------------------------------------------------- *)
(* Observations over the log                                               *)
(* ---------------------------------------------------------------------- *)
Idx(op) == {k \in DOMAIN log : log[k].op = op}
IdxArg(op, arg) == {k \in DOMAIN log : log[k].op = op /\ log[k].arg = arg}
Count(op) == Cardinality(Idx(op))
Cleanups == Count("cleanup_resources")

(* the strategy has returned its outcome to recover_from_error *)
Decided == pc \in {"summary", "cleanup", "done"}
(* recover_from_error has returned `result` to its caller *)
Returned == pc = "done"

(* ---------------------------------------------------------------------- *)
(* C1: whenever recover_from_error returns RECOVERY_FAILED,                *)
(* cleanup_resources has been invoked exactly once during that call,       *)
(* counting the strategy's own invocation and the dispatcher's.            *)
(* ---------------------------------------------------------------------- *)
C1_FailedCleansExactlyOnce ==
    (Returned /\ result = "RECOVERY_FAILED") => Cleanups = 1

(* ---------------------------------------------------------------------- *)
(* C2 as stated: whenever recover_from_error returns RECOVERY_SUCCESS or   *)
(* RECOVERY_PARTIAL, cleanup_resources has been invoked zero times.        *)
(* ---------------------------------------------------------------------- *)
C2_Original ==
    (Returned /\ result \in {"RECOVERY_SUCCESS", "RECOVERY_PARTIAL"}) => Cleanups = 0

(* C2 amended: on a RECOVERY_SUCCESS or RECOVERY_PARTIAL return the        *)
(* dispatcher has not invoked cleanup_resources; the only invocation is    *)
(* step 1 of recover_from_memory_error, so the count is one for            *)
(* MEMORY_ERROR and zero for every other kind.                             *)
C2_NonFailedCleanups ==
    (Returned /\ result \in {"RECOVERY_SUCCESS", "RECOVERY_PARTIAL"}) =>
        /\ Cleanups = (IF type = "MEMORY_ERROR" THEN 1 ELSE 0)
        /\ \A k \in Idx("cleanup_resources") :
              k = 2 /\ log[1].arg = "recover_from_memory_error"

C2_Witness ==
    /\ Returned
    /\ type = "MEMORY_ERROR"
    /\ result = "RECOVERY_SUCCESS"
    /\ Cleanups = 1

(* ---------------------------------------------------------------------- *)
(* C3: for every handled kind and every sequence of probe results, a       *)
(* started recover_from_error eventually returns, and what it returns is   *)
(* one of the three RecoveryStatus values.                                 *)
(* ---------------------------------------------------------------------- *)
C3_Terminates ==
    (pc \notin {"idle", "done"} /\ type \in HandledTypes)
        ~> (Returned /\ type \in HandledTypes /\ result \in RecoveryStatus)

C3_Witness ==
    /\ Returned
    /\ type = "FILE_ACCESS_ERROR"
    /\ attempt = MAX_RETRIES + 1
    /\ result = "RECOVERY_FAILED"

(* ---------------------------------------------------------------------- *)
(* C4: for a type outside the six handled kinds recover_from_error         *)
(* returns RECOVERY_FAILED at once: no strategy is called, no probe is     *)
(* made, and the only thing done is the "Unknown error type" message.      *)
(* ---------------------------------------------------------------------- *)
C4_UnknownFailsWithoutStrategy ==
    (pc # "idle" /\ type \notin HandledTypes) =>
        /\ Returned
        /\ result = "RECOVERY_FAILED"
        /\ Count("call") = 0
        /\ Len(log) = 1
        /\ log[1].op = "printf"
        /\ clock = 0

C4_Witness ==
    /\ Returned
    /\ type = "OUT_OF_RANGE"
    /\ result = "RECOVERY_FAILED"
    /\ Count("call") = 0

(* ---------------------------------------------------------------------- *)
(* Observations of recover_from_file_access_error                          *)
(* ---------------------------------------------------------------------- *)
TargetProbes == IdxArg("fopen", FILE_ACCESS_PATH)
BackupProbes == IdxArg("fopen", FILE_ACCESS_PATH \o ".backup")
Opened(K) == {k \in K : log[k].val = 1}
(* the last fopen of the log *)
LastProbe == CHOOSE k \in Idx("fopen") : \A l \in Idx("fopen") : l <= k

(* ---------------------------------------------------------------------- *)
(* C5: in recover_from_file_access_error the outcome follows the attempt   *)
(* at which a file opened: RECOVERY_SUCCESS exactly when the target path   *)
(* opened, RECOVERY_PARTIAL exactly when the target did not open and       *)
(* `<path>.backup` did at the same attempt; the backup is probed only      *)
(* after the target failed at that attempt, and nothing is probed after    *)
(* a file opened.                                                          *)
(* ---------------------------------------------------------------------- *)
C5_FileAccessOutcome ==
    type = "FILE_ACCESS_ERROR" =>
        /\ Idx("fopen") = TargetProbes \cup BackupProbes
        /\ \A k \in BackupProbes :
              /\ k - 1 \in TargetProbes
              /\ log[k - 1].val = 0
              /\ log[k - 1].at = log[k].at
        /\ \A k \in Opened(Idx("fopen")) : k = LastProbe
        /\ Decided =>
              /\ (status = "RECOVERY_SUCCESS") = (Opened(TargetProbes) # {})
              /\ (status = "RECOVERY_PARTIAL") = (Opened(BackupProbes) # {})
        /\ Opened(Idx("fopen")) # {} =>
              pc \in {"file_target_close", "file_backup_close", "summary", "done"}

C5_Witness ==
    /\ Returned
    /\ type = "FILE_ACCESS_ERROR"
    /\ result = "RECOVERY_PARTIAL"
    /\ attempt = 2
    /\ Opened(BackupProbes) # {}
    /\ Opened(TargetProbes) = {}

(* ---------------------------------------------------------------------- *)
(* C6: in recover_from_file_access_error, when no probe of the target or   *)
(* of its .backup sibling ever opens, the outcome is RECOVERY_FAILED and   *)
(* it is produced after exactly MAX_RETRIES attempts, each of which        *)
(* probed the target and then the backup; RECOVERY_FAILED is produced in   *)
(* no other way.                                                           *)
(* ---------------------------------------------------------------------- *)
C6_FileAccessFailsAfterMaxAttempts ==
    (type = "FILE_ACCESS_ERROR" /\ Decided) =>
        /\ (Opened(Idx("fopen")) = {}) = (status = "RECOVERY_FAILED")
        /\ status = "RECOVERY_FAILED" =>
              /\ Count("attempt") = MAX_RETRIES
              /\ Cardinality(TargetProbes) = MAX_RETRIES
              /\ Cardinality(BackupProbes) = MAX_RETRIES

C6_Witness ==
    /\ Returned
    /\ type = "FILE_ACCESS_ERROR"
    /\ result = "RECOVERY_FAILED"
    /\ Opened(Idx("fopen")) = {}
    /\ Cardinality(TargetProbes) = MAX_RETRIES

(* ---------------------------------------------------------------------- *)
(* C7: recover_from_memory_error runs cleanup_resources once, before the   *)
(* safety check; when verify_system_resources then reports 0 the outcome   *)
(* is RECOVERY_FAILED and no allocation is tried; when it reports 1 the    *)
(* outcome is RECOVERY_SUCCESS if the trial malloc succeeds and            *)
(* RECOVERY_FAILED if it fails.                                            *)
(* ---------------------------------------------------------------------- *)
C7_MemoryStrategy ==
    (type = "MEMORY_ERROR" /\ pc # "mem_cleanup") =>
        /\ log[2].op = "cleanup_resources"
        /\ \A k \in Idx("verify_system_resources") :
              Cardinality({c \in Idx("cleanup_resources") : c < k}) = 1
        /\ \A m \in Idx("malloc") :
              \E k \in Idx("verify_system_resources") : k < m /\ log[k].val = 1
        /\ pc = "summary" => Cleanups = 1
        /\ Decided =>
              /\ Count("verify_system_resources") = 1
              /\ \A k \in Idx("verify_system_resources") :
                    IF log[k].val = 0
                    THEN status = "RECOVERY_FAILED" /\ Count("malloc") = 0
                    ELSE /\ Count("malloc") = 1
                         /\ \A m \in Idx("malloc") :
                               status = (IF log[m].val = 1 THEN "RECOVERY_SUCCESS"
                                         ELSE "RECOVERY_FAILED")

C7_Witness ==
    /\ pc = "summary"
    /\ type = "MEMORY_ERROR"
    /\ status = "RECOVERY_FAILED"
    /\ Count("malloc") = 0
    /\ Cleanups = 1
    /\ \E k \in Idx("verify_system_resources") : log[k].val = 0

(* ---------------------------------------------------------------------- *)
(* Observations of recover_from_device_error                               *)
(* ---------------------------------------------------------------------- *)
DevProbes == Idx("check_device_status") \cup Idx("reset_device")
DevIndex(path) == CHOOSE j \in DOMAIN device_paths : device_paths[j] = path
DevAttempts(j) == IdxArg("attempt", device_paths[j])

(* ---------------------------------------------------------------------- *)
(* C8: recover_from_device_error probes the candidates in list order,      *)
(* each for at most MAX_RETRIES attempts numbered 1, 2, 3, and moves to    *)
(* the next candidate only after MAX_RETRIES failed attempts at the        *)
(* previous one; every attempt checks check_device_status first and calls  *)
(* reset_device only when that check failed; the first probe that          *)
(* succeeds is the last probe made and the outcome is then                 *)
(* RECOVERY_SUCCESS.                                                       *)
(* ---------------------------------------------------------------------- *)
C8_DeviceOrder ==
    type = "DEVICE_ERROR" =>
        /\ \A k \in DevProbes, l \in DevProbes :
              k < l => DevIndex(log[k].arg) <= DevIndex(log[l].arg)
        /\ \A j \in DOMAIN device_paths :
              /\ Cardinality(DevAttempts(j)) <= MAX_RETRIES
              /\ {log[k].val : k \in DevAttempts(j)} = 1..Cardinality(DevAttempts(j))
              /\ (j > 1 /\ DevAttempts(j) # {}) =>
                    /\ Cardinality(DevAttempts(j - 1)) = MAX_RETRIES
                    /\ Cardinality(IdxArg("reset_device", device_paths[j - 1])) = MAX_RETRIES
        /\ \A k \in Idx("check_device_status") :
              /\ log[k - 1].op = "attempt"
              /\ log[k - 1].arg = log[k].arg
        /\ \A k \in Idx("reset_device") :
              /\ log[k - 1].op = "check_device_status"
              /\ log[k - 1].arg = log[k].arg
              /\ log[k - 1].val = 0
        /\ \A k \in Opened(DevProbes) : \A l \in DevProbes : l <= k
        /\ Opened(DevProbes) # {} =>
              pc \in {"dev_check_close", "dev_reset_close", "summary", "done"}
        /\ Decided => (status = "RECOVERY_SUCCESS") = (Opened(DevProbes) # {})

(* only the third candidate is accessible: success there, after 3 + 3 + 0 failures *)
C8_Witness ==
    /\ Returned
    /\ type = "DEVICE_ERROR"
    /\ result = "RECOVERY_SUCCESS"
    /\ Cardinality(DevAttempts(1)) = MAX_RETRIES
    /\ Cardinality(DevAttempts(2)) = MAX_RETRIES
    /\ Cardinality(DevAttempts(3)) = 1
    /\ \E k \in Idx("check_device_status") :
          log[k].arg = device_paths[3] /\ log[k].val = 1

(* ---------------------------------------------------------------------- *)
(* C9: in recover_from_device_busy the starts of any two consecutive       *)
(* attempts are at least 2 * RETRY_DELAY seconds apart.                    *)
(* ---------------------------------------------------------------------- *)
C9_BusySpacing ==
    type = "DEVICE_BUSY" =>
        \A k \in Idx("attempt"), l \in Idx("attempt") :
            log[l].val = log[k].val + 1 => log[l].at - log[k].at >= 2 * RETRY_DELAY

C9_Witness ==
    /\ type = "DEVICE_BUSY"
    /\ Count("attempt") = MAX_RETRIES
    /\ Returned

(* ---------------------------------------------------------------------- *)
(* C10: in recover_from_txt_busy, an open that fails with an errno other   *)
(* than ETXTBSY makes the strategy return RECOVERY_FAILED at once: that    *)
(* open is the last one made and no sleep follows it.                      *)
(* ---------------------------------------------------------------------- *)
C10_TxtUnexpectedAborts ==
    type = "TXT_BUSY" =>
        \A k \in Idx("errno") :
            /\ log[k - 1].op = "open"
            /\ log[k - 1].val = 0
            /\ log[k].arg # "ETXTBSY" =>
                  /\ Decided
                  /\ status = "RECOVERY_FAILED"
                  /\ \A l \in Idx("open") \cup Idx("sleep") \cup Idx("attempt") : l < k
                  /\ clock = log[k].at

C10_Witness ==
    /\ Returned
    /\ type = "TXT_BUSY"
    /\ result = "RECOVERY_FAILED"
    /\ Count("open") = 1
    /\ Count("sleep") = 0
    /\ \E k \in Idx("errno") : log[k].arg = "ENOENT"

(* ---------------------------------------------------------------------- *)
(* Observations of verify_system_resources                                 *)
(* ---------------------------------------------------------------------- *)
Verifies == Idx("verify_system_resources")
(* the usage read of the verify logged at k failed *)
ReadFailed(k) == log[k - 1].op = "getrusage" /\ log[k - 1].val = -1
(* ru_maxrss and the total the verify logged at k compared *)
UsageOf(k) == log[k - 2].val
TotalOf(k) == log[k - 1].val

(* ---------------------------------------------------------------------- *)
(* C11 as stated: verify_system_resources returns 1 iff the usage read     *)
(* succeeded and usage / total is strictly less than 0.9; usage of         *)
(* exactly 0.9 of total is reported as not safe.                           *)
(* ---------------------------------------------------------------------- *)
C11_Original ==
    \A k \in Verifies :
        (log[k].val = 1) =
            (/\ ~ReadFailed(k)
             /\ UsageOf(k) * MAX_MEMORY_THRESHOLD_DEN
                    < MAX_MEMORY_THRESHOLD_NUM * TotalOf(k))

(* C11 amended: verify_system_resources returns 1 iff the usage read       *)
(* succeeded and usage / total is at most 0.9: usage of exactly 0.9 of     *)
(* total is reported safe, anything above it and a failed read are not.    *)
C11_SafeIffAtMostThreshold ==
    \A k \in Verifies :
        /\ log[k].val \in {0, 1}
        /\ IF ReadFailed(k)
           THEN log[k].val = 0
           ELSE /\ log[k - 2].op = "getrusage"
                /\ log[k - 1].op = "get_system_memory"
                /\ (log[k].val = 1) =
                      (UsageOf(k) * MAX_MEMORY_THRESHOLD_DEN
                          <= MAX_MEMORY_THRESHOLD_NUM * TotalOf(k))

(* a verify at exactly 0.9 of a total read from /proc/meminfo reported safe *)
C11_Witness ==
    \E k \in Verifies :
        /\ ~ReadFailed(k)
        /\ TotalOf(k) = MaxMemKb * 1024
        /\ UsageOf(k) * MAX_MEMORY_THRESHOLD_DEN = MAX_MEMORY_THRESHOLD_NUM * TotalOf(k)
        /\ log[k].val = 1

(* ---------------------------------------------------------------------- *)
(* Observations of recover_from_device_busy                                *)
(* ---------------------------------------------------------------------- *)
Loads == Idx("getloadavg")
Releases == IdxArg("system", "fuser -k /dev/busy_device")
(* the load reading of the attempt in which the event at k happened *)
LoadBefore(k) == CHOOSE g \in Loads : g < k /\ \A h \in Loads : h < k => h <= g
(* the event at k is followed by the forced release and then the doubled wait, *)
(* or the strategy is about to issue them                                      *)
ReleasedAfter(k) ==
    \/ k = Len(log) /\ pc = "busy_fuser"
    \/ /\ k + 2 <= Len(log)
       /\ k + 1 \in Releases
       /\ log[k + 2].op = "sleep"
       /\ log[k + 2].val = 2 * RETRY_DELAY

(* ---------------------------------------------------------------------- *)
(* C12: recover_from_device_busy checks the resources only in an attempt   *)
(* whose load average was read and is below 0.8; it returns                *)
(* RECOVERY_SUCCESS at the first attempt where that check also reports     *)
(* safe; every attempt where the load is unread or too high, or the        *)
(* resources unsafe, issues the forced release and then waits; it returns  *)
(* RECOVERY_FAILED exactly when none of MAX_RETRIES attempts met the       *)
(* condition.                                                              *)
(* ---------------------------------------------------------------------- *)
C12_BusyOutcome ==
    type = "DEVICE_BUSY" =>
        /\ \A g \in Loads : log[g - 1].op = "attempt"
        /\ \A g \in Loads :
              IF log[g].val # -1 /\ log[g].val < LOAD_LIMIT
              THEN \/ g = Len(log) /\ pc = "busy_verify"
                   \/ \E v \in Verifies : v > g /\ LoadBefore(v) = g
              ELSE ReleasedAfter(g)
        /\ \A v \in Verifies :
              /\ log[LoadBefore(v)].val # -1
              /\ log[LoadBefore(v)].val < LOAD_LIMIT
              /\ \A r \in Releases : r < LoadBefore(v) \/ r > v
              /\ IF log[v].val = 1
                 THEN /\ Decided
                      /\ status = "RECOVERY_SUCCESS"
                      /\ \A l \in Idx("attempt") \cup Releases \cup Idx("sleep") : l < v
                 ELSE ReleasedAfter(v)
        /\ Decided =>
              /\ (status = "RECOVERY_SUCCESS") = (Opened(Verifies) # {})
              /\ (status = "RECOVERY_FAILED") = (Opened(Verifies) = {})
              /\ status = "RECOVERY_FAILED" =>
                    /\ Count("attempt") = MAX_RETRIES
                    /\ Cardinality(Releases) = MAX_RETRIES

(* success at the second attempt, after one forced release *)
C12_Witness ==
    /\ Returned
    /\ type = "DEVICE_BUSY"
    /\ result = "RECOVERY_SUCCESS"
    /\ Count("attempt") = 2
    /\ Cardinality(Releases) = 1
    /\ \E g \in Loads : log[g].val = LOAD_LIMIT

(* ---------------------------------------------------------------------- *)
(* Observations of the retry loops                                         *)
(* ---------------------------------------------------------------------- *)
LoopTypes == {"FILE_ACCESS_ERROR", "DEVICE_ERROR", "DEVICE_BUSY", "TXT_BUSY"}
Attempts == Idx("attempt")
Sleeps == Idx("sleep")
(* the delay of the strategy's retry policy *)
PolicyDelay == IF type = "DEVICE_BUSY" THEN 2 * RETRY_DELAY ELSE RETRY_DELAY
(* the per-attempt checks that succeeded *)
Successes ==
    {k \in DOMAIN log :
        /\ log[k].op \in {"fopen", "check_device_status", "reset_device", "open",
                          "verify_system_resources"}
        /\ log[k].val = 1}
(* attempts at k and l with no attempt between them *)
Consecutive(k, l) == k < l /\ \A m \in Attempts : m <= k \/ m >= l

(* ---------------------------------------------------------------------- *)
(* C13: in the four retry-loop strategies each loop (one per candidate in  *)
(* the Device strategy) makes at most MAX_RETRIES attempts; exactly one    *)
(* sleep of the policy's delay separates two consecutive attempts; no      *)
(* attempt follows a successful one; and the outcome is RECOVERY_FAILED    *)
(* exactly when no attempt succeeded.                                      *)
(* ---------------------------------------------------------------------- *)
C13_RetryShape ==
    type \in LoopTypes =>
        /\ \A k \in Attempts :
              /\ log[k].val \in 1..MAX_RETRIES
              /\ Cardinality({l \in Attempts : log[l].arg = log[k].arg}) <= MAX_RETRIES
        /\ \A k \in Attempts, l \in Attempts :
              Consecutive(k, l) =>
                  /\ Cardinality({m \in Sleeps : k < m /\ m < l}) = 1
                  /\ \A m \in Sleeps : (k < m /\ m < l) => log[m].val = PolicyDelay
                  /\ log[l].at = log[k].at + PolicyDelay
        /\ \A k \in Successes : \A l \in Attempts \cup Sleeps : l < k
        /\ Cardinality(Successes) <= 1
        /\ Decided => (status = "RECOVERY_FAILED") = (Successes = {})

(* success at the last permitted attempt, after two delays *)
C13_Witness ==
    /\ Returned
    /\ type = "TXT_BUSY"
    /\ result = "RECOVERY_SUCCESS"
    /\ Count("attempt") = MAX_RETRIES
    /\ Count("sleep") = MAX_RETRIES - 1
    /\ clock = (MAX_RETRIES - 1) * RETRY_DELAY

(* ---------------------------------------------------------------------- *)
(* Observations of the retry budget                                        *)
(* ---------------------------------------------------------------------- *)
(* recover_from_txt_busy saw an errno other than ETXTBSY *)
UnexpectedCondition == \E k \in Idx("errno") : log[k].arg # "ETXTBSY"
(* the attempts a strategy may make before it gives up *)
Budget == IF type = "DEVICE_ERROR" THEN Len(device_paths) * MAX_RETRIES ELSE MAX_RETRIES

(* ---------------------------------------------------------------------- *)
(* C14 as stated: RECOVERY_FAILED is returned short of MAX_RETRIES         *)
(* attempts only for an unhandled type or when recover_from_txt_busy saw   *)
(* a non-busy errno; for every other kind a RECOVERY_FAILED return         *)
(* implies MAX_RETRIES attempts were made.                                 *)
(* ---------------------------------------------------------------------- *)
C14_Original ==
    (/\ Returned
     /\ result = "RECOVERY_FAILED"
     /\ type \in HandledTypes
     /\ ~(type = "TXT_BUSY" /\ UnexpectedCondition))
        => Count("attempt") >= MAX_RETRIES

(* C14 amended: RECOVERY_FAILED is produced short of the full retry budget *)
(* only for an unhandled type, for a non-busy errno in                     *)
(* recover_from_txt_busy, and for MEMORY_ERROR and NULL_ERROR, whose       *)
(* strategies make one check and never retry; for FILE_ACCESS_ERROR,       *)
(* DEVICE_BUSY and TXT_BUSY with busy-only failures it implies exactly     *)
(* MAX_RETRIES attempts, for DEVICE_ERROR MAX_RETRIES per candidate.       *)
C14_FailedShortOfBudget ==
    (Decided /\ status = "RECOVERY_FAILED" /\ type \in HandledTypes) =>
        IF type \in {"MEMORY_ERROR", "NULL_ERROR"}
        THEN /\ Count("attempt") = 0
             /\ Count("verify_system_resources") = 1
             /\ Count("sleep") = 0
        ELSE IF type = "TXT_BUSY" /\ UnexpectedCondition
             THEN Count("attempt") \in 1..MAX_RETRIES
             ELSE /\ Count("attempt") = Budget
                  /\ \A j \in DOMAIN device_paths :
                        type = "DEVICE_ERROR" =>
                            Cardinality(DevAttempts(j)) = MAX_RETRIES

(* a memory recovery that failed at its single safety check *)
C14_Witness ==
    /\ Returned
    /\ type = "MEMORY_ERROR"
    /\ result = "RECOVERY_FAILED"
    /\ Count("attempt") = 0
    /\ Count("malloc") = 0

(* ---------------------------------------------------------------------- *)
(* Observations of descriptors                                             *)
(* ---------------------------------------------------------------------- *)
(* the positions between a successful open and its close *)
ClosePcs == {"file_target_close", "file_backup_close", "dev_check_close",
             "dev_reset_close", "txt_close"}
(* open()/fopen() calls that returned a descriptor, and the closes made *)
Opens == {k \in Successes : log[k].op # "verify_system_resources"}
Closes == Idx("close") \cup Idx("fclose")

(* ---------------------------------------------------------------------- *)
(* C15: a descriptor opened by a probe, a reset or a strategy is held only *)
(* until the close that directly follows its open; when the strategy has   *)
(* returned, and so when recover_from_error returns, every descriptor      *)
(* opened during the call has been closed and is not open.                 *)
(* ---------------------------------------------------------------------- *)
C15_NoHandleRetained ==
    pc # "idle" =>
        /\ (fd # -1) = (pc \in ClosePcs)
        /\ pc \in ClosePcs =>
              /\ fd \in fds
              /\ fd \notin {0, 1, 2}
              /\ Len(log) \in Opens
        /\ Cardinality(Opens) = Cardinality(Closes) + (IF pc \in ClosePcs THEN 1 ELSE 0)
        /\ \A c \in Closes : c - 1 \in Opens \/ c - 3 \in Opens
        /\ Decided =>
              /\ fd = -1
              /\ \A c \in Closes : log[c].val \notin fds

(* a probe opened descriptor 4 (3 was in use), closed it, and the call returned *)
C15_Witness ==
    /\ Returned
    /\ type = "DEVICE_ERROR"
    /\ result = "RECOVERY_SUCCESS"
    /\ 3 \in fds
    /\ \E c \in Closes : log[c].val = 4
    /\ 4 \notin fds

(* ---------------------------------------------------------------------- *)
(* Observations of cleanup_resources                                       *)
(* ---------------------------------------------------------------------- *)
(* the reserved temporary artifacts that exist *)
ReservedTmp == {f \in tmp : HasPrefix(f.name, TMP_PREFIX)}
(* cleanup_resources has run and nothing has been opened since: no path of *)
(* recover_from_error opens a descriptor after a cleanup                   *)
AfterCleanup == Cleanups >= 1 /\ pc \notin ClosePcs

(* ---------------------------------------------------------------------- *)
(* C16: cleanup_resources is idempotent on the resource state: after it    *)
(* has run, once or twice, only descriptors 0-2 are open, and running it   *)
(* again would leave the open descriptors, the IPC segments and the        *)
(* temporary artifacts as they are.                                        *)
(* ---------------------------------------------------------------------- *)
C16_CleanupIdempotent ==
    AfterCleanup =>
        /\ fds = {0, 1, 2}
        /\ CloseRange(fds, FIRST_CLOSED_FD) = fds
        /\ ipcrm_a(shm) = shm
        /\ rm_f(tmp) = tmp

(* ---------------------------------------------------------------------- *)
(* Observations of the dispatcher's epilogue                               *)
(* ---------------------------------------------------------------------- *)
(* the outcome summaries printed by recover_from_error *)
Summaries == {k \in Idx("printf") : HasPrefix(log[k].arg, "Recovery ")}

(* ---------------------------------------------------------------------- *)
(* C17: in a call whose strategy returned RECOVERY_FAILED, the outcome     *)
(* summary is printed first, cleanup_resources runs next and is the last   *)
(* thing done, recover_from_error has not returned before it completed,    *)
(* and the value returned is the strategy's RECOVERY_FAILED.               *)
(* ---------------------------------------------------------------------- *)
C17_FailedEpilogue ==
    (type \in HandledTypes /\ pc \in {"cleanup", "done"} /\ status = "RECOVERY_FAILED") =>
        /\ Cardinality(Summaries) = 1
        /\ \A k \in Summaries :
              /\ log[k].arg = "Recovery RECOVERY_FAILED"
              /\ IF pc = "cleanup"
                 THEN /\ k = Len(log)
                      /\ result = "none"
                 ELSE /\ k + 1 \in Idx("cleanup_resources")
                      /\ Len(log) = k + Len(CleanupEvents)
                      /\ result = "RECOVERY_FAILED"
                      /\ \A c \in Idx("cleanup_resources") : c > k \/ type = "MEMORY_ERROR"

(* a failed text-busy recovery: summary, then cleanup, then the return *)
C17_Witness ==
    /\ Returned
    /\ type = "TXT_BUSY"
    /\ result = "RECOVERY_FAILED"
    /\ Cleanups = 1
    /\ \E k \in Summaries : k + 1 \in Idx("cleanup_resources")

(* ---------------------------------------------------------------------- *)
(* C19: RECOVERY_PARTIAL is produced and returned only for                 *)
(* FILE_ACCESS_ERROR; for every other type, handled or not, the outcome    *)
(* is RECOVERY_SUCCESS or RECOVERY_FAILED.                                 *)
(* ---------------------------------------------------------------------- *)
C19_PartialOnlyFileAccess ==
    /\ (status = "RECOVERY_PARTIAL" \/ result = "RECOVERY_PARTIAL") =>
           type = "FILE_ACCESS_ERROR"
    /\ (Returned /\ type # "FILE_ACCESS_ERROR") =>
           result \in {"RECOVERY_SUCCESS", "RECOVERY_FAILED"}

(* the backup opened at the first attempt *)
C19_Witness ==
    /\ Returned
    /\ type = "FILE_ACCESS_ERROR"
    /\ result = "RECOVERY_PARTIAL"
    /\ Count("attempt") = 1
    /\ Count("sleep") = 0

(* ---------------------------------------------------------------------- *)
(* C20: in the four retry-loop strategies every failed attempt is followed *)
(* by a sleep, the final one included (a non-busy errno of                 *)
(* recover_from_txt_busy excepted); when the budget is exhausted the       *)
(* sleeps number as many as the failed attempts, MAX_RETRIES, or           *)
(* MAX_RETRIES per candidate for DEVICE_ERROR, and RECOVERY_FAILED is      *)
(* produced only when the last of them is over.                            *)
(* ---------------------------------------------------------------------- *)
C20_SleepAfterEveryFailure ==
    (type \in LoopTypes /\ ~UnexpectedCondition) =>
        /\ Count("sleep") <= Count("attempt")
        /\ Count("sleep") >= Count("attempt") - 1
        /\ \A m \in Sleeps : \E k \in Attempts : k < m
        /\ (Decided /\ Successes = {}) =>
              /\ status = "RECOVERY_FAILED"
              /\ Count("attempt") = Budget
              /\ Count("sleep") = Budget
              /\ \A k \in Attempts : \E m \in Sleeps :
                    /\ m > k
                    /\ log[m].at = log[k].at
                    /\ log[m].val = PolicyDelay
              /\ clock = Budget * PolicyDelay
              /\ \A k \in Summaries : \A m \in Sleeps :
                    m < k /\ log[k].at >= log[m].at + log[m].val

(* all nine device attempts failed: nine sleeps, eighteen seconds *)
C20_Witness ==
    /\ Returned
    /\ type = "DEVICE_ERROR"
    /\ result = "RECOVERY_FAILED"
    /\ Count("sleep") = Len(device_paths) * MAX_RETRIES
    /\ clock = Len(device_paths) * MAX_RETRIES * RETRY_DELAY

(* ---------------------------------------------------------------------- *)
(* the positions of caller c at or inside cleanup_resources *)
CleanupPcs == {"cleanup", "cleanup_close", "cleanup_ipcrm", "cleanup_rm"}

(* ---------------------------------------------------------------------- *)
(* C18: with two concurrent callers nothing guards cleanup_resources: a    *)
(* caller that has reached its cleanup can always enter it and take each   *)
(* of its steps, also while another caller holds the descriptor of its     *)
(* probe between open and close, and a probe's descriptor can be found     *)
(* closed under it.                                                        *)
(* ---------------------------------------------------------------------- *)
C18_CleanupUnguarded ==
    \A c \in Callers, d \in Callers :
        (c # d /\ pc[c] \in CleanupPcs /\ pc[d] = "txt_close") =>
            ENABLED ConcCleanupStep(c)

(* caller d is between open and close, its descriptor already closed by the *)
(* loop of the cleanup that caller c is still running                       *)
C18_Witness ==
    \E c \in Callers, d \in Callers :
        /\ c # d
        /\ pc[c] = "cleanup_ipcrm"
        /\ status[c] = "RECOVERY_FAILED"
        /\ type[c] = "TXT_BUSY"
        /\ pc[d] = "txt_close"
        /\ fd[d] \in FIRST_CLOSED_FD .. (FD_LIMIT - 1)
        /\ fd[d] \notin fds

====
